---- MODULE Spec2Model ----
(***************************************************************************)
(* Model of src/app.py: the iNaturalist GeoJSON -> Wikimedia Commons .map  *)
(* converter.  Two request handlers (fetch_by_id, upload_file) are         *)
(* modelled as state machines whose steps are separated by the calls to    *)
(* the three remote collaborators (Wikidata statement lookup, the S3       *)
(* geometry store, the iNaturalist taxa API).  compute_center is a pure    *)
(* function and is modelled as an operator.                                *)
(*                                                                         *)
(* Python strings that the code processes character by character (strip,   *)
(* upper, startswith, replace, f-string interpolation) are sequences of    *)
(* one-character strings.  JSON values are tagged records; the tag k is    *)
(* the JSON kind, "absent" stands for a key that is not in its mapping.    *)
(***************************************************************************)
EXTENDS Integers, Sequences, FiniteSets, TLC

VARIABLES
    pc,            \* position of the handler: idle, lookup, geometry, taxon, returned, done
    scenario,      \* "none", "fetch", "upload", "center"
    identifier,    \* fetch_by_id: request.form identifier after strip()
    inat_id,       \* fetch_by_id: the native id (a JSON scalar)
    geojson_data,  \* the parsed input document (fetched or uploaded)
    features,      \* the normalized feature list
    geometry,      \* first_feature.get("geometry", {}) / argument of compute_center
    lat,           \* latitude returned by compute_center
    lon,           \* longitude returned by compute_center
    taxon_id,      \* the id used for the taxa API and the sources URL
    species_name,  \* the species name (a JSON scalar; None is Null)
    calls,         \* the collaborators called so far, in order
    outcome,       \* what the handler returned
    document,      \* wikimedia_map, when one was built
    received       \* history: what the request held and the collaborators answered

vars == <<pc, scenario, identifier, inat_id, geojson_data, features, geometry,
          lat, lon, taxon_id, species_name, calls, outcome, document, received>>

(***************************************************************************)
(* Bounds of the model.                                                    *)
(***************************************************************************)
\* longest feature list in a FeatureCollection
MaxFeatures == 2
\* coordinates are drawn from 1..MaxCoord (0 is kept for the default centre)
MaxCoord == 2

(***************************************************************************)
(* Python strings as character sequences.                                  *)
(***************************************************************************)
Whitespace == {" "}

RECURSIVE lstrip(_)
lstrip(s) == IF s # <<>> /\ Head(s) \in Whitespace THEN lstrip(Tail(s)) ELSE s

RECURSIVE rstrip(_)
rstrip(s) ==
    IF s # <<>> /\ s[Len(s)] \in Whitespace THEN rstrip(SubSeq(s, 1, Len(s) - 1)) ELSE s

\* str.strip()
strip(s) == rstrip(lstrip(s))

upper_char(c) == IF c = "q" THEN "Q" ELSE IF c = "a" THEN "A" ELSE c

\* str.upper()
upper(s) == [i \in 1..Len(s) |-> upper_char(s[i])]

\* str.startswith("Q")
startswith_Q(s) == s # <<>> /\ s[1] = "Q"

\* str.replace(" ", "_")
replace_space(s) == [i \in 1..Len(s) |-> IF s[i] = " " THEN "_" ELSE s[i]]

DigitChar(d) == CASE d = 0 -> "0" [] d = 1 -> "1" [] d = 2 -> "2" [] d = 3 -> "3"
                  [] d = 4 -> "4" [] d = 5 -> "5" [] d = 6 -> "6" [] d = 7 -> "7"
                  [] d = 8 -> "8" [] d = 9 -> "9"

RECURSIVE Digits(_)
\* str(n) for a natural number n
Digits(n) == IF n < 10 THEN <<DigitChar(n)>> ELSE Digits(n \div 10) \o <<DigitChar(n % 10)>>

(***************************************************************************)
(* JSON scalars: values of properties.name, properties.taxon_id, the       *)
(* native id, the species name.                                            *)
(***************************************************************************)
Absent == [k |-> "absent", s |-> <<>>, n |-> 0]
Null == [k |-> "null", s |-> <<>>, n |-> 0]
Str(s) == [k |-> "str", s |-> s, n |-> 0]
Num(n) == [k |-> "num", s |-> <<>>, n |-> n]

\* dict.get(key): a missing key reads as None
get(v) == IF v.k = "absent" THEN Null ELSE v

\* dict.get(key, default)
get_default(v, d) == IF v.k = "absent" THEN d ELSE v

\* Python truthiness of a scalar
truthy(v) == (v.k = "str" /\ v.s # <<>>) \/ (v.k = "num" /\ v.n # 0)

\* f"{v}" of a scalar
format(v) ==
    CASE v.k = "str" -> v.s
      [] v.k = "num" -> Digits(v.n)
      [] OTHER -> <<"N", "o", "n", "e">>

(***************************************************************************)
(* Coordinates: JSON values nested as arrays.                              *)
(***************************************************************************)
CAbsent == [k |-> "absent", n |-> 0, items |-> <<>>]
CNull == [k |-> "null", n |-> 0, items |-> <<>>]
CNum(n) == [k |-> "num", n |-> n, items |-> <<>>]
CArr(items) == [k |-> "arr", n |-> 0, items |-> items]
\* the value of an expression whose evaluation raised
CRaised == [k |-> "raised", n |-> 0, items |-> <<>>]

\* mapping[key]: KeyError when the key is missing
subscript_key(c) == IF c.k \in {"absent", "raised"} THEN CRaised ELSE c

\* c[0]: IndexError on an empty list, TypeError on None or a number
subscript_0(c) == IF c.k = "arr" /\ Len(c.items) > 0 THEN c.items[1] ELSE CRaised

\* lon, lat = c succeeds: c is a list of exactly two elements
unpacks_2(c) == c.k = "arr" /\ Len(c.items) = 2

(***************************************************************************)
(* Geometry objects.                                                       *)
(***************************************************************************)
TAbsent == [k |-> "absent", v |-> ""]
TNull == [k |-> "null", v |-> ""]
TStr(v) == [k |-> "str", v |-> v]

GAbsent == [k |-> "absent", type |-> TAbsent, coordinates |-> CAbsent]
GNull == [k |-> "null", type |-> TAbsent, coordinates |-> CAbsent]
GString == [k |-> "str", type |-> TAbsent, coordinates |-> CAbsent]
GObj(t, c) == [k |-> "obj", type |-> t, coordinates |-> c]
\* the default {} of first_feature.get("geometry", {})
GEmpty == GObj(TAbsent, CAbsent)

\* (0.0, 0.0)
ZeroCenter == <<CNum(0), CNum(0)>>

\* the pair (lat, lon) unpacked from the point p, or the default
swap_or_default(p) == IF unpacks_2(p) THEN <<p.items[2], p.items[1]>> ELSE ZeroCenter

\* a bug: the pair is returned in the order it is stored, (lon, lat)
compute_center_unswapped(g) ==
    IF g.k # "obj" \/ g.type.k = "absent" THEN ZeroCenter
    ELSE IF g.type = TStr("MultiPolygon")
         THEN LET p == subscript_0(subscript_0(subscript_0(subscript_key(g.coordinates))))
              IN  IF unpacks_2(p) THEN <<p.items[1], p.items[2]>> ELSE ZeroCenter
    ELSE IF g.type = TStr("Polygon")
         THEN LET p == subscript_0(subscript_0(subscript_key(g.coordinates)))
              IN  IF unpacks_2(p) THEN <<p.items[1], p.items[2]>> ELSE ZeroCenter
    ELSE ZeroCenter

\* a bug: a point that does not unpack is passed on instead of defaulting
compute_center_unguarded(g) ==
    IF g.k # "obj" \/ g.type.k = "absent" THEN ZeroCenter
    ELSE IF g.type = TStr("MultiPolygon")
         THEN LET p == subscript_0(subscript_0(subscript_0(subscript_key(g.coordinates))))
              IN  IF p.k = "arr" THEN <<p, p>> ELSE ZeroCenter
    ELSE IF g.type = TStr("Polygon")
         THEN LET p == subscript_0(subscript_0(subscript_key(g.coordinates)))
              IN  IF p.k = "arr" THEN <<p, p>> ELSE ZeroCenter
    ELSE ZeroCenter

\* compute_center(geometry): <<lat, lon>>
compute_center(g) ==
    IF g.k # "obj" \/ g.type.k = "absent"
    THEN ZeroCenter      \* TypeError (None, str) or KeyError ('type'), caught
    ELSE IF g.type = TStr("MultiPolygon")
         THEN swap_or_default(
                  subscript_0(subscript_0(subscript_0(subscript_key(g.coordinates)))))
    ELSE IF g.type = TStr("Polygon")
         THEN swap_or_default(subscript_0(subscript_0(subscript_key(g.coordinates))))
    ELSE ZeroCenter

(***************************************************************************)
(* Features and documents.  A document and a feature have the same shape:  *)
(* a Feature document is its own first feature.  k is the JSON kind of the *)
(* value, n the length of an array, other says that a mapping has keys     *)
(* besides type, geometry, properties and features.                        *)
(***************************************************************************)
PAbsent == [k |-> "absent", name |-> Absent, taxon_id |-> Absent]
PNull == [k |-> "null", name |-> Absent, taxon_id |-> Absent]
PObj(name, tid) == [k |-> "obj", name |-> name, taxon_id |-> tid]
\* the default {} of first_feature.get("properties", {})
PEmpty == PObj(Absent, Absent)

FAbsent == [k |-> "absent", items |-> <<>>]
FList(items) == [k |-> "arr", items |-> items]

Doc(k, n, type, g, p, f, other) ==
    [k |-> k, n |-> n, type |-> type, geometry |-> g, properties |-> p,
     features |-> f, other |-> other]

\* JSON null, also Python None
DNull == Doc("null", 0, TAbsent, GAbsent, PAbsent, FAbsent, FALSE)
\* a JSON array of n elements
DArr(n) == Doc("arr", n, TAbsent, GAbsent, PAbsent, FAbsent, FALSE)
\* a JSON object
DObj(type, g, p, f, other) == Doc("obj", 0, type, g, p, f, other)
\* a GeoJSON Feature
Feature(g, p) == DObj(TStr("Feature"), g, p, FAbsent, FALSE)

\* Python truthiness of a parsed JSON value
doc_truthy(d) ==
    CASE d.k = "obj" -> \/ d.type.k # "absent" \/ d.geometry.k # "absent"
                        \/ d.properties.k # "absent" \/ d.features.k # "absent"
                        \/ d.other
      [] d.k = "arr" -> d.n > 0
      [] OTHER -> FALSE

(***************************************************************************)
(* The inputs: requests and the collaborators' responses.                  *)
(***************************************************************************)
Unknown == <<"U", "n", "k", "n", "o", "w", "n">>
FallbackId == <<"1", "8", "8", "0", "8">>

\* request.form identifier
Identifiers ==
    { <<>>, <<" ">>, <<"4", "2">>, <<" ", "7", " ">>, <<"Q", "4", "2">>,
      <<"q", "7">>, <<" ", "Q", "1">>, <<"a", "Q">> }

\* get_statement_values(qid, "P3151"): it raises, or returns a list of strings
WikidataResponses ==
    { [k |-> "raise", values |-> <<>>],
      [k |-> "values", values |-> <<>>],
      [k |-> "values", values |-> <<Str(<<>>)>>],
      [k |-> "values", values |-> <<Str(<<"4", "2">>)>>],
      [k |-> "values", values |-> <<Str(<<"7">>), Str(<<"4", "2">>)>>] }

SpeciesNames == { Absent, Null, Str(<<>>), Str(<<"A", "a", " ", "b">>) }
TaxonIds == { Absent, Null, Str(<<>>), Num(0), Num(42) }
PropertiesSet ==
    {PAbsent, PNull} \cup { PObj(nm, t) : nm \in SpeciesNames, t \in TaxonIds }

Point(x, y) == CArr(<<CNum(x), CNum(y)>>)
Ring == CArr(<<Point(1, 2), Point(2, 1), Point(2, 2)>>)
GoodPolygon == GObj(TStr("Polygon"), CArr(<<Ring>>))
GoodMultiPolygon == GObj(TStr("MultiPolygon"), CArr(<<CArr(<<Ring>>)>>))

\* the geometries of the features of the pipeline's documents
PipelineGeometries ==
    { GAbsent, GNull, GString, GoodPolygon, GoodMultiPolygon,
      GObj(TStr("Point"), Point(1, 2)),
      GObj(TStr("Polygon"), CArr(<<CArr(<<>>)>>)) }

\* what features[0] can be: a Feature, or a value that is no mapping
FirstFeatures ==
    { Feature(g, p) : g \in PipelineGeometries, p \in PropertiesSet } \cup {DNull}

OtherFeatures ==
    { Feature(GObj(TStr("Polygon"), CArr(<<CArr(<<Point(2, 1)>>)>>)),
              PObj(Str(<<"Z">>), Num(7))),
      Feature(GNull, PEmpty) }

RECURSIVE SeqsUpTo(_, _)
\* the sequences over S of length at most n
SeqsUpTo(S, n) ==
    IF n <= 0 THEN {<<>>}
    ELSE LET shorter == SeqsUpTo(S, n - 1)
         IN  shorter \cup { Append(q, x) : q \in shorter, x \in S }

FeatureLists ==
    {<<>>} \cup { <<f>> \o rest : f \in FirstFeatures,
                                  rest \in SeqsUpTo(OtherFeatures, MaxFeatures - 1) }

\* the parsed JSON documents the geometry store or an uploaded file can hold
Documents ==
    (FirstFeatures \ {DNull})
    \cup { DObj(TStr("FeatureCollection"), GAbsent, PAbsent, FList(fl), FALSE) :
             fl \in FeatureLists }
    \cup { DObj(TStr("FeatureCollection"), GAbsent, PAbsent, FAbsent, FALSE),
           DObj(TStr("Point"), GAbsent, PAbsent, FAbsent, TRUE),
           DObj(TStr("GeometryCollection"), GoodPolygon, PEmpty,
                FList(<<Feature(GoodPolygon, PEmpty)>>), FALSE),
           DObj(TNull, GAbsent, PAbsent, FAbsent, FALSE),
           DObj(TAbsent, GAbsent, PAbsent, FAbsent, TRUE),
           DObj(TAbsent, GoodPolygon, PEmpty, FList(<<Feature(GoodPolygon, PEmpty)>>),
                FALSE),
           DObj(TAbsent, GAbsent, PAbsent, FAbsent, FALSE),
           DNull, DArr(0), DArr(1) }

\* requests.get(geojson_url, timeout=10): it raises (timeout, no connection),
\* or returns a response with a status and a body
GeometryResponses ==
    { [k |-> "raise", doc |-> DNull],
      [k |-> "not_ok", doc |-> DNull],
      [k |-> "bad_body", doc |-> DNull] }
    \cup { [k |-> "json", doc |-> d] : d \in Documents }

\* request.files of the upload
Uploads ==
    { [k |-> "no_file", doc |-> DNull],
      [k |-> "no_filename", doc |-> DNull],
      [k |-> "bad_text", doc |-> DNull],
      [k |-> "bad_json", doc |-> DNull] }
    \cup { [k |-> "json", doc |-> d] : d \in Documents }

\* requests.get of the taxa API: data is the parsed body, results its "results"
\* value, first what results[0] is, name its "name" value
TaxaResp(k, data, results, first, name) ==
    [k |-> k, data |-> data, results |-> results, first |-> first, name |-> name]

TaxaResponses ==
    { TaxaResp("raise", "", "", "", Absent),
      TaxaResp("not_ok", "", "", "", Absent),
      TaxaResp("not_ok", "obj", "list", "obj", Str(<<"E">>)),
      TaxaResp("bad_body", "", "", "", Absent),
      TaxaResp("json", "arr", "", "", Absent),
      TaxaResp("json", "obj", "absent", "", Absent),
      TaxaResp("json", "obj", "empty", "", Absent),
      TaxaResp("json", "obj", "list", "num", Absent) }
    \cup { TaxaResp("json", "obj", "list", "obj", nm) :
             nm \in {Absent, Null, Str(<<>>), Str(<<"L", " ", "x">>)} }

(***************************************************************************)
(* What a handler returns.                                                 *)
(***************************************************************************)
NoOutcome == [kind |-> "none", status |-> 0, error |-> "", exc |-> "", link |-> <<>>]
\* jsonify({"error": msg}), 400
Error(msg) == [kind |-> "error", status |-> 400, error |-> msg, exc |-> "", link |-> <<>>]
\* an exception that leaves the handler
Exception(name) ==
    [kind |-> "exception", status |-> 500, error |-> "", exc |-> name, link |-> <<>>]
\* render_template_string(OUTPUT_TEMPLATE, json_output=..., commons_link=link)
Rendered(link) ==
    [kind |-> "document", status |-> 200, error |-> "", exc |-> "", link |-> link]

NoDocument ==
    [license |-> "", description |-> [en |-> <<>>, de |-> <<>>, ja |-> <<>>, zh |-> <<>>],
     sources |-> <<>>, zoom |-> 0, latitude |-> CNum(0), longitude |-> CNum(0),
     data |-> [type |-> "", features |-> <<>>]]

Zoom == 5

\* the sources string, as the pieces the f-string joins
sources_url(id) ==
    <<"https://www.inaturalist.org/pages/range_maps", ", ",
      "https://www.inaturalist.org/geo_model/">> \o id \o <<"/explain">>

\* a bug: only the first feature is kept
wikimedia_map_first_only(name, id, la, lo, fs) ==
    [license |-> "CC-BY-4.0+",
     description |-> [en |-> <<"Distribution map of ">> \o format(name),
                      de |-> <<"Verbreitungskarte von ">> \o format(name),
                      ja |-> format(name) \o <<" JA">>,
                      zh |-> format(name) \o <<" ZH">>],
     sources |-> sources_url(id), zoom |-> Zoom, latitude |-> la, longitude |-> lo,
     data |-> [type |-> "FeatureCollection",
               features |-> IF fs = <<>> THEN fs ELSE <<fs[1]>>]]

\* a bug: the sources URL always embeds the fallback id
wikimedia_map_fallback_id(name, id, la, lo, fs) ==
    [license |-> "CC-BY-4.0+",
     description |-> [en |-> <<"Distribution map of ">> \o format(name),
                      de |-> <<"Verbreitungskarte von ">> \o format(name),
                      ja |-> format(name) \o <<" JA">>,
                      zh |-> format(name) \o <<" ZH">>],
     sources |-> sources_url(FallbackId), zoom |-> Zoom, latitude |-> la, longitude |-> lo,
     data |-> [type |-> "FeatureCollection", features |-> fs]]

\* wikimedia_map = {...}; id is what the f-string of sources interpolates.  The
\* Japanese and Chinese templates are abbreviated to a suffix.
wikimedia_map(name, id, la, lo, fs) ==
    [license |-> "CC-BY-4.0+",
     description |-> [en |-> <<"Distribution map of ">> \o format(name),
                      de |-> <<"Verbreitungskarte von ">> \o format(name),
                      ja |-> format(name) \o <<" JA">>,
                      zh |-> format(name) \o <<" ZH">>],
     sources |-> sources_url(id), zoom |-> Zoom, latitude |-> la, longitude |-> lo,
     data |-> [type |-> "FeatureCollection", features |-> fs]]

\* commons_link
commons_link(name) ==
    <<"https://commons.wikimedia.org/w/index.php?title=Data:">>
    \o replace_space(name) \o <<"_iNat_2025.map", "&action=submit">>

(***************************************************************************)
(* The handlers' state as a record, and the steps as functions of it.      *)
(***************************************************************************)
State ==
    [pc |-> pc, scenario |-> scenario, identifier |-> identifier, inat_id |-> inat_id,
     geojson_data |-> geojson_data, features |-> features, geometry |-> geometry,
     lat |-> lat, lon |-> lon, taxon_id |-> taxon_id, species_name |-> species_name,
     calls |-> calls, outcome |-> outcome, document |-> document,
     received |-> received]

Becomes(s) ==
    /\ pc' = s.pc /\ scenario' = s.scenario /\ identifier' = s.identifier
    /\ inat_id' = s.inat_id /\ geojson_data' = s.geojson_data /\ features' = s.features
    /\ geometry' = s.geometry /\ lat' = s.lat /\ lon' = s.lon /\ taxon_id' = s.taxon_id
    /\ species_name' = s.species_name /\ calls' = s.calls /\ outcome' = s.outcome
    /\ document' = s.document /\ received' = s.received

returns(s, o) == [s EXCEPT !.pc = "done", !.outcome = o]

called(s, who) == [s EXCEPT !.calls = Append(@, who)]

\* the tail of both handlers: build wikimedia_map, the Commons link, render.
\* species_name.replace raises AttributeError when species_name is None.
build_and_render(s, name, id) ==
    LET s1 == [s EXCEPT !.species_name = name,
                        !.document = wikimedia_map(name, id, s.lat, s.lon, s.features)]
    IN  IF name.k # "str"
        THEN returns(s1, Exception("AttributeError"))
        ELSE returns(s1, Rendered(commons_link(name.s)))

\* "Process the GeoJSON as Feature or FeatureCollection", d a mapping
normalize(d) ==
    IF d.type = TStr("Feature") THEN [ok |-> TRUE, features |-> <<d>>]
    ELSE IF d.type = TStr("FeatureCollection")
         THEN [ok |-> TRUE, features |-> get_default(d.features, FList(<<>>)).items]
    ELSE [ok |-> FALSE, features |-> <<>>]

\* the try block around the taxa API call: species_name after it
taxa_name(r) ==
    IF r.k = "json" /\ r.data = "obj" /\ r.results = "list" /\ r.first = "obj"
    THEN get(r.name)
    ELSE Null   \* not ok, empty results, or an exception, which is caught

\* a bug: the fallback reads the name only when it is non-empty
fallback_name_nonempty(p) ==
    IF truthy(p.name) THEN p.name ELSE Str(Unknown)

\* first_feature.get("properties", {}).get("name", "Unknown"), p a mapping
fallback_name(p) == get_default(p.name, Str(Unknown))

\* "if not species_name: species_name = ...", then the tail of the handler
name_and_build(s, name, id) ==
    LET props == get_default(s.features[1].properties, PEmpty)
    IN  IF truthy(name) THEN build_and_render(s, name, id)
        ELSE IF props.k # "obj"
             THEN returns([s EXCEPT !.species_name = name], Exception("AttributeError"))
        ELSE build_and_render(s, fallback_name(props), id)

(***************************************************************************)
(* fetch_by_id                                                             *)
(***************************************************************************)
\* a bug: the QID test is made without upper()
fetch_by_id_begin_case_sensitive(s, raw) ==
    LET id == strip(raw)
        s1 == [s EXCEPT !.scenario = "fetch", !.identifier = id]
    IN  IF id = <<>> THEN returns(s1, Error("No identifier provided"))
        ELSE IF startswith_Q(id) THEN [s1 EXCEPT !.pc = "lookup"]
        ELSE [s1 EXCEPT !.inat_id = Str(id), !.pc = "geometry"]

\* from the request to the first collaborator call
fetch_by_id_begin(s, raw) ==
    LET id == strip(raw)
        s1 == [s EXCEPT !.scenario = "fetch", !.identifier = id]
    IN  IF id = <<>> THEN returns(s1, Error("No identifier provided"))
        ELSE IF startswith_Q(upper(id)) THEN [s1 EXCEPT !.pc = "lookup"]
        ELSE [s1 EXCEPT !.inat_id = Str(id), !.pc = "geometry"]

\* get_inat_id_from_wikidata(qid): id[0] raises IndexError on an empty list
get_inat_id_from_wikidata(r) ==
    IF r.k = "raise" THEN [exc |-> "LookupFailure", value |-> Null]
    ELSE IF r.values = <<>> THEN [exc |-> "IndexError", value |-> Null]
    ELSE [exc |-> "", value |-> r.values[1]]

\* the QID branch: the lookup and the test of its result
fetch_by_id_lookup(s, r) ==
    LET s1 == [called(s, "wikidata") EXCEPT !.received.wikidata = r]
        got == get_inat_id_from_wikidata(r)
    IN  IF got.exc # "" THEN returns(s1, Exception(got.exc))
        ELSE IF ~truthy(got.value)
             THEN returns([s1 EXCEPT !.inat_id = got.value],
                          Error("Could not retrieve an iNaturalist taxon id from the Wikidata QID"))
        ELSE [s1 EXCEPT !.inat_id = got.value, !.pc = "geometry"]

\* fetch_geojson(inat_id): requests.get raises outside the try block
fetch_geojson(r) ==
    IF r.k = "raise" THEN [exc |-> "RequestException", data |-> DNull]
    ELSE IF r.k = "json" THEN [exc |-> "", data |-> r.doc]
    ELSE [exc |-> "", data |-> DNull]

\* from the geometry fetch to the call of the taxa API
fetch_by_id_geometry(s, r) ==
    LET s1 == [called(s, "geometry") EXCEPT !.received.geometry = r.k]
        got == fetch_geojson(r)
        s2 == [s1 EXCEPT !.geojson_data = got.data]
        norm == normalize(got.data)
        s3 == [s2 EXCEPT !.features = norm.features, !.taxon_id = s.inat_id]
        first == norm.features[1]
        geo == get_default(first.geometry, GEmpty)
        center == compute_center(geo)
    IN  IF got.exc # "" THEN returns(s1, Exception(got.exc))
        ELSE IF ~doc_truthy(got.data)
             THEN returns(s2, Error("Failed to fetch or parse GeoJSON data for the given taxon id"))
        ELSE IF got.data.k # "obj" THEN returns(s2, Exception("AttributeError"))
        ELSE IF ~norm.ok
             THEN returns(s2, Error("GeoJSON data is not a Feature or FeatureCollection"))
        ELSE IF norm.features = <<>>
             THEN build_and_render([s3 EXCEPT !.lat = CNum(0), !.lon = CNum(0)],
                                   Str(Unknown), format(s.inat_id))
        ELSE IF first.k # "obj" THEN returns(s3, Exception("AttributeError"))
        ELSE [s3 EXCEPT !.geometry = geo, !.lat = center[1], !.lon = center[2],
                        !.pc = "taxon"]

\* the taxa API call, the name fallback and the tail of the handler
fetch_by_id_taxa(s, r) ==
    name_and_build([called(s, "taxa") EXCEPT !.received.taxa = r],
                   taxa_name(r), format(s.taxon_id))

(***************************************************************************)
(* upload_file                                                             *)
(***************************************************************************)
\* taxon_id if taxon_id else '18808'
upload_sources_id(t) == IF truthy(t) THEN format(t) ELSE FallbackId

\* "if taxon_id:"
upload_calls_taxa(t) == truthy(t)

\* from the request to the call of the taxa API, or to the end
upload_file_begin(s, u) ==
    LET s0 == [s EXCEPT !.scenario = "upload", !.received.upload = u.k]
        s1 == [s0 EXCEPT !.geojson_data = u.doc]
        norm == normalize(u.doc)
        s2 == [s1 EXCEPT !.features = norm.features]
        first == norm.features[1]
        geo == get_default(first.geometry, GEmpty)
        center == compute_center(geo)
        s3 == [s2 EXCEPT !.geometry = geo, !.lat = center[1], !.lon = center[2]]
        props == get_default(first.properties, PEmpty)
        tid == get(props.taxon_id)
        s4 == [s3 EXCEPT !.taxon_id = tid]
    IN  IF u.k = "no_file" THEN returns(s0, Error("No file part in the request"))
        ELSE IF u.k = "no_filename" THEN returns(s0, Error("No file selected"))
        ELSE IF u.k # "json" THEN returns(s0, Error("Failed to read/parse file"))
        ELSE IF u.doc.k # "obj" THEN returns(s1, Exception("AttributeError"))
        ELSE IF ~norm.ok
             THEN returns(s1, Error("Input file must be a GeoJSON Feature or FeatureCollection"))
        ELSE IF norm.features = <<>>
             THEN build_and_render([s2 EXCEPT !.lat = CNum(0), !.lon = CNum(0)],
                                   Str(Unknown), upload_sources_id(Null))
        ELSE IF first.k # "obj" THEN returns(s2, Exception("AttributeError"))
        ELSE IF props.k # "obj" THEN returns(s3, Exception("AttributeError"))
        ELSE IF upload_calls_taxa(tid) THEN [s4 EXCEPT !.pc = "taxon"]
        ELSE name_and_build(s4, Null, upload_sources_id(tid))

\* the taxa API call, the name fallback and the tail of the handler
upload_file_taxa(s, r) ==
    name_and_build([called(s, "taxa") EXCEPT !.received.taxa = r],
                   taxa_name(r), upload_sources_id(s.taxon_id))

(***************************************************************************)
(* The state machine of one request.                                       *)
(***************************************************************************)
NoneReceived ==
    [wikidata |-> [k |-> "none", values |-> <<>>], geometry |-> "none",
     upload |-> "none", taxa |-> TaxaResp("none", "", "", "", Absent)]

Idle(sc, g) ==
    /\ pc = "idle" /\ scenario = sc /\ identifier = <<>> /\ inat_id = Null
    /\ geojson_data = DNull /\ features = <<>> /\ geometry = g
    /\ lat = CNum(0) /\ lon = CNum(0) /\ taxon_id = Null /\ species_name = Null
    /\ calls = <<>> /\ outcome = NoOutcome /\ document = NoDocument
    /\ received = NoneReceived

Init == Idle("none", GAbsent)

FetchBegin ==
    /\ pc = "idle" /\ scenario = "none"
    /\ \E raw \in Identifiers : Becomes(fetch_by_id_begin(State, raw))

FetchLookup ==
    /\ pc = "lookup" /\ scenario = "fetch"
    /\ \E r \in WikidataResponses : Becomes(fetch_by_id_lookup(State, r))

FetchGeometry ==
    /\ pc = "geometry" /\ scenario = "fetch"
    /\ \E r \in GeometryResponses : Becomes(fetch_by_id_geometry(State, r))

FetchTaxa ==
    /\ pc = "taxon" /\ scenario = "fetch"
    /\ \E r \in TaxaResponses : Becomes(fetch_by_id_taxa(State, r))

UploadBegin ==
    /\ pc = "idle" /\ scenario = "none"
    /\ \E u \in Uploads : Becomes(upload_file_begin(State, u))

UploadTaxa ==
    /\ pc = "taxon" /\ scenario = "upload"
    /\ \E r \in TaxaResponses : Becomes(upload_file_taxa(State, r))

Next == FetchBegin \/ FetchLookup \/ FetchGeometry \/ FetchTaxa \/ UploadBegin \/ UploadTaxa

Spec == Init /\ [][Next]_vars

(***************************************************************************)
(* compute_center applied to a geometry drawn from GeometryValues.         *)
(***************************************************************************)
Numbers == { CNum(i) : i \in 1..MaxCoord }
Points ==
    { CArr(<<x, y>>) : x \in Numbers, y \in Numbers }
    \cup { CArr(<<>>), CArr(<<CNum(1)>>), CArr(<<CNum(1), CNum(2), CNum(1)>>),
           CNum(1), CNull }
Rings == {CArr(<<>>)} \cup { CArr(<<p>>) : p \in Points }
              \cup { CArr(<<p, Point(2, 2)>>) : p \in Points }
Polygons == {CArr(<<>>)} \cup { CArr(<<r>>) : r \in Rings }
                 \cup { CArr(<<r, CArr(<<Point(1, 1)>>)>>) : r \in Rings }
MultiPolygons == {CArr(<<>>)} \cup { CArr(<<q>>) : q \in Polygons }
Coordinates == {CAbsent, CNull, CNum(1)} \cup Points \cup Rings \cup Polygons \cup MultiPolygons
GeometryTypes ==
    { TAbsent, TNull, TStr("Polygon"), TStr("MultiPolygon"), TStr("Point"),
      TStr("LineString") }
GeometryValues ==
    {GNull, GString} \cup { GObj(t, c) : t \in GeometryTypes, c \in Coordinates }

InitCenter == \E g \in GeometryValues : Idle("center", g)

Estimate ==
    /\ pc = "idle" /\ scenario = "center"
    /\ LET center == compute_center(geometry)
       IN  Becomes([State EXCEPT !.pc = "returned", !.lat = center[1], !.lon = center[2]])

NextCenter == Estimate

SpecCenter == InitCenter /\ [][NextCenter]_vars

(***************************************************************************)
(* Vocabulary of the properties.                                           *)
(***************************************************************************)
Range(q) == { q[i] : i \in 1..Len(q) }
Count(q, x) == Cardinality({ i \in 1..Len(q) : q[i] = x })
\* the position of the first x in q, 0 when there is none
IndexOf(q, x) == IF x \in Range(q) THEN CHOOSE i \in 1..Len(q) : q[i] = x /\ \A j \in 1..(i - 1) : q[j] # x
                 ELSE 0

ReturnedDocument == outcome.kind = "document"
ValidationError == outcome = Error("No identifier provided")
ResolutionError ==
    outcome = Error("Could not retrieve an iNaturalist taxon id from the Wikidata QID")
FetchError ==
    outcome = Error("Failed to fetch or parse GeoJSON data for the given taxon id")
FormatError ==
    \/ outcome = Error("GeoJSON data is not a Feature or FeatureCollection")
    \/ outcome = Error("Input file must be a GeoJSON Feature or FeatureCollection")

\* the identifier starts with 'Q' or 'q'
IsQid(id) == id # <<>> /\ id[1] \in {"Q", "q"}
\* a JSON document was parsed from the geometry store's body or the uploaded file
Parsed == received.geometry = "json" \/ received.upload = "json"
\* the parsed document is one that normalization accepts
Normalizable ==
    /\ Parsed /\ geojson_data.k = "obj"
    /\ geojson_data.type \in {TStr("Feature"), TStr("FeatureCollection")}
\* the normalized feature sequence of a document, as the specification defines it
ExpectedFeatures(d) ==
    IF d.type = TStr("Feature") THEN <<d>>
    ELSE IF d.features.k = "arr" THEN d.features.items ELSE <<>>
\* a feature that carries a taxon id: a non-null, non-empty, non-zero taxon_id
HasTaxonId(f) ==
    /\ f.k = "obj" /\ f.properties.k = "obj"
    /\ f.properties.taxon_id.k \in {"str", "num"}
    /\ f.properties.taxon_id \notin {Str(<<>>), Num(0)}

(***************************************************************************)
(* C1 (fails on the code): in the fetch scenario with an identifier that   *)
(* starts with Q or q, when the Wikidata lookup fails or returns an empty  *)
(* list the run ends with ResolutionError, without a document and without  *)
(* a call to the geometry store or the taxa API.                           *)
(***************************************************************************)
C1_LookupFailureIsResolutionError ==
    ( /\ scenario = "fetch" /\ pc = "done" /\ IsQid(identifier)
      /\ \/ received.wikidata.k = "raise"
         \/ received.wikidata.k = "values" /\ received.wikidata.values = <<>> )
    => /\ ResolutionError
       /\ calls = <<"wikidata">>

(***************************************************************************)
(* C2 (fails on the code): in the fetch scenario, when the geometry store  *)
(* is unavailable (the call raises, the status is not ok, the body is no   *)
(* JSON) the run ends with FetchError, the store is called once and the    *)
(* taxa API never.                                                         *)
(***************************************************************************)
C2_GeometryUnavailableIsFetchError ==
    ( /\ scenario = "fetch" /\ pc = "done"
      /\ received.geometry \in {"raise", "not_ok", "bad_body"} )
    => /\ FetchError
       /\ Count(calls, "geometry") = 1
       /\ "taxa" \notin Range(calls)

(***************************************************************************)
(* C3 (fails on the code): once normalization has succeeded every run ends *)
(* by returning a document, whatever the first feature and the taxa API's  *)
(* response are; the centre is (0.0, 0.0) and the name "Unknown" where     *)
(* they cannot be determined.                                              *)
(***************************************************************************)
C3_NoFailureAfterNormalization ==
    (Normalizable /\ pc = "done")
    => /\ ReturnedDocument
       /\ features = <<>> => /\ lat = CNum(0) /\ lon = CNum(0)
                             /\ species_name = Str(Unknown)

(***************************************************************************)
(* C4: in every returned document with a non-empty feature list, the       *)
(* species name is the first result's name of the taxa API when a native   *)
(* id is present, the lookup succeeded and that name is present and        *)
(* non-empty; otherwise the first feature's properties.name when that key  *)
(* is present; otherwise "Unknown".  The native id is always present in    *)
(* the fetch scenario; in the upload scenario it is the first feature's    *)
(* taxon_id, and without one the taxa API is not called.                   *)
(***************************************************************************)
NativeIdPresent == scenario = "fetch" \/ HasTaxonId(features[1])

LookupYieldsName ==
    /\ received.taxa.k = "json" /\ received.taxa.data = "obj"
    /\ received.taxa.results = "list" /\ received.taxa.first = "obj"
    /\ received.taxa.name.k = "str" /\ received.taxa.name.s # <<>>

ChosenName ==
    LET props == features[1].properties
    IN  IF NativeIdPresent /\ LookupYieldsName THEN received.taxa.name
        ELSE IF props.k = "obj" /\ props.name.k # "absent" THEN props.name
        ELSE Str(Unknown)

C4_SpeciesNameOrder ==
    (ReturnedDocument /\ features # <<>>)
    => /\ species_name = ChosenName
       /\ document.description.en = <<"Distribution map of ">> \o ChosenName.s
       /\ NativeIdPresent <=> "taxa" \in Range(calls)

C4_Witness ==
    /\ ReturnedDocument /\ scenario = "upload" /\ features # <<>>
    /\ ~NativeIdPresent
    /\ features[1].properties.name = Str(<<>>)
    /\ species_name = Str(<<>>)

(***************************************************************************)
(* C5 (fails on the code): whenever a JSON document was parsed, a Feature  *)
(* is normalized to the one-element list holding it, a FeatureCollection   *)
(* to its features list (empty when the key is absent), and any other      *)
(* document ends the run with FormatError and without a document.          *)
(***************************************************************************)
C5_Normalization ==
    (Parsed /\ pc \in {"taxon", "done"})
    => IF geojson_data.k = "obj"
          /\ geojson_data.type \in {TStr("Feature"), TStr("FeatureCollection")}
       THEN features = ExpectedFeatures(geojson_data)
       ELSE pc = "done" /\ FormatError

(***************************************************************************)
(* C6: compute_center swaps the order: for a Polygon whose                 *)
(* coordinates[0][0] is the pair (lon, lat), and for a MultiPolygon whose  *)
(* coordinates[0][0][0] is the pair (lon, lat), it returns (lat, lon),     *)
(* whatever the other points are.                                          *)
(***************************************************************************)
IsList(c, n) == c.k = "arr" /\ Len(c.items) >= n
\* the geometry has the kind and its first point exists
HasFirstPoint(g, kind) ==
    /\ g.k = "obj" /\ g.type = TStr(kind)
    /\ IsList(g.coordinates, 1) /\ IsList(g.coordinates.items[1], 1)
    /\ kind = "MultiPolygon" => IsList(g.coordinates.items[1].items[1], 1)
FirstPoint(g, kind) ==
    IF kind = "MultiPolygon" THEN g.coordinates.items[1].items[1].items[1]
    ELSE g.coordinates.items[1].items[1]
\* the first point is a pair
FirstPointIsPair(g, kind) ==
    /\ HasFirstPoint(g, kind)
    /\ FirstPoint(g, kind).k = "arr" /\ Len(FirstPoint(g, kind).items) = 2

C6_CenterSwapsFirstPoint ==
    pc = "returned" =>
        \A kind \in {"Polygon", "MultiPolygon"} :
            FirstPointIsPair(geometry, kind)
            => /\ lat = FirstPoint(geometry, kind).items[2]
               /\ lon = FirstPoint(geometry, kind).items[1]

C6_Witness ==
    /\ pc = "returned" /\ FirstPointIsPair(geometry, "MultiPolygon")
    /\ FirstPoint(geometry, "MultiPolygon") = Point(1, 2)
    /\ Len(geometry.coordinates.items[1].items[1].items) = 2
    /\ lat = CNum(2) /\ lon = CNum(1)

(***************************************************************************)
(* C7: compute_center returns (0.0, 0.0) for every geometry that is no     *)
(* mapping, lacks type or coordinates, has another kind than Polygon and   *)
(* MultiPolygon, or whose first point does not exist or is no pair.        *)
(***************************************************************************)
Malformed(g) ==
    \/ g.k # "obj"
    \/ g.type.k = "absent" \/ g.coordinates.k = "absent"
    \/ g.type \notin {TStr("Polygon"), TStr("MultiPolygon")}
    \/ g.type = TStr("Polygon") /\ ~FirstPointIsPair(g, "Polygon")
    \/ g.type = TStr("MultiPolygon") /\ ~FirstPointIsPair(g, "MultiPolygon")

C8_FeaturesVerbatim ==
    ReturnedDocument
    => /\ document.data.type = "FeatureCollection"
       /\ document.data.features = ExpectedFeatures(geojson_data)

C8_Witness ==
    /\ ReturnedDocument /\ "taxa" \in Range(calls)
    /\ Len(document.data.features) = MaxFeatures
    /\ document.data.features[1] # document.data.features[2]

(***************************************************************************)
(* C9: in every returned document the second URL of sources is             *)
(* https://www.inaturalist.org/geo_model/<id>/explain, <id> being the      *)
(* resolved identifier in the fetch scenario and the first feature's       *)
(* taxon_id in the upload scenario, or 18808 when the upload has no        *)
(* feature or its first feature carries no taxon_id.                       *)
(***************************************************************************)
ExpectedSourcesId ==
    IF scenario = "fetch"
    THEN IF IsQid(identifier) THEN received.wikidata.values[1].s ELSE identifier
    ELSE IF features # <<>> /\ HasTaxonId(features[1])
         THEN LET t == features[1].properties.taxon_id
              IN  IF t.k = "num" THEN Digits(t.n) ELSE t.s
    ELSE <<"1", "8", "8", "0", "8">>

C9_SourcesEmbedTaxonId ==
    ReturnedDocument
    => /\ Len(document.sources) >= 4
       /\ SubSeq(document.sources, 3, Len(document.sources))
            = <<"https://www.inaturalist.org/geo_model/">> \o ExpectedSourcesId
              \o <<"/explain">>

C9_Witness ==
    /\ ReturnedDocument /\ scenario = "upload" /\ features # <<>>
    /\ features[1].properties.taxon_id = Num(42)
    /\ SubSeq(document.sources, 3, Len(document.sources))
         = <<"https://www.inaturalist.org/geo_model/", "4", "2", "/explain">>

(***************************************************************************)
(* C10: in a fetch run no collaborator is called for an empty identifier,  *)
(* which ends with ValidationError; the Wikidata lookup is called exactly  *)
(* when the identifier starts with Q or q, and before the geometry store;  *)
(* the geometry store is called only with a resolved native id; the taxa   *)
(* API only after the geometry was fetched and normalized to a non-empty   *)
(* feature list; and each collaborator at most once.                       *)
(***************************************************************************)
C10_CallOrder ==
    scenario = "fetch"
    => /\ identifier = <<>> => (calls = <<>> /\ pc = "done" /\ ValidationError)
       /\ "wikidata" \in Range(calls) => IsQid(identifier)
       /\ (IsQid(identifier) /\ pc # "lookup") => "wikidata" \in Range(calls)
       /\ "geometry" \in Range(calls)
            => /\ inat_id.k = "str" /\ inat_id.s # <<>>
               /\ IsQid(identifier) => IndexOf(calls, "wikidata") < IndexOf(calls, "geometry")
       /\ "taxa" \in Range(calls)
            => /\ "geometry" \in Range(calls)
               /\ IndexOf(calls, "geometry") < IndexOf(calls, "taxa")
               /\ Normalizable /\ features # <<>>
       /\ \A c \in {"wikidata", "geometry", "taxa"} : Count(calls, c) <= 1

C10_Witness ==
    /\ scenario = "fetch" /\ pc = "done"
    /\ calls = <<"wikidata", "geometry", "taxa">>
    /\ identifier # <<>> /\ identifier[1] = "q"

====
